---- MODULE Spec2Model ----
(***************************************************************************)
(* Memory-Palace-Builder-3D: the AI-service workflows of                   *)
(* src/services/geminiService.ts (lines 1-243), the data-URL codec they    *)
(* share, and the panorama viewer (ThreeDViewer, lines 244-411 of the same *)
(* file).                                                                  *)
(*                                                                         *)
(* Text is modelled as a sequence of one-character strings, so that        *)
(* split(), match() and the template literals act on characters.           *)
(***************************************************************************)
EXTENDS Integers, Sequences, FiniteSets, TLC

VARIABLES
    codec,      \* the data-URL codec exercised on its own: input, URL, output
    pc,         \* where the exported workflow stands (which await it is at)
    call,       \* the arguments of the running call
    textReq,    \* the text request sent to the AI service
    textResp,   \* the text response received
    textContent,\* the parsed text content (textContent / newTextContent)
    slots,      \* the four generateOneImage / editOneImage promises
    arrival,    \* the promises in the order they settled under Promise.all
    joined,     \* the Promise.all over the four
    issued,     \* how many requests were sent to the AI service, per kind
    outcome,    \* what the caller got: nothing yet, a value, or a thrown error
    viewer,     \* the ThreeDViewer component: its phase, imageUrl, running effect
    texture,    \* per effect run: the state of its texture load
    sphere,     \* per effect run: whether the textured sphere is in its scene
    camera,     \* rotation.x (pitch), rotation.y (yaw) and aspect of the camera
    keysPressed,            \* the arrow keys held
    isDragging,             \* the ref: a drag is in progress
    previousMousePosition,  \* the ref: where the drag was last seen
    listeners,  \* the event listeners registered on the window and the mount
    frameReq,   \* the effect runs with an animation frame requested
    frames,     \* how many times animate() ran (each run renders)
    rendered,   \* the pitch of the last render, and the effect run that made it
    mountSize,  \* clientWidth and clientHeight of the mount element
    canvases,   \* the effect runs whose canvas is a child of the mount element
    disposed,   \* the effect runs whose renderer and geometry were disposed
    threw,      \* a cleanup threw
    dragInProgress, \* the user's drag: a mousedown on the mount element was
                    \* not yet followed by a mouseup or a mouseleave
    images,         \* FullscreenViewer: its images prop (empty: not shown)
    currentIndex,   \* FullscreenViewer: its currentIndex state
    lastIndex,      \* FullscreenViewer: what onClose was last called with
    trail           \* FullscreenViewer: its latest next and previous actions,
                    \* each with the index it started from

svcVars == <<pc, call, textReq, textResp, textContent, slots, arrival, joined,
             issued, outcome>>
viewVars == <<viewer, texture, sphere, camera, keysPressed, isDragging,
              previousMousePosition, listeners, frameReq, frames, rendered,
              mountSize, canvases, disposed, threw, dragInProgress>>
galVars == <<images, currentIndex, lastIndex, trail>>
vars == <<codec, svcVars, viewVars, galVars>>

----------------------------------------------------------------------------
(* Bounds of the model.                                                    *)

\* longest type and subtype token of a generated MIME type
MaxTokenLen == 2
\* longest base64 payload of a generated image
MaxPayloadLen == 2
\* longest arbitrary string handed to dataUrlToBase64
MaxRawLen == 5
\* longest arbitrary string handed to regeneratePalace as the base image
MaxBaseLen == 4
\* most images handed to FullscreenViewer
MaxImages == 4
\* how many of the latest next and previous actions are remembered
MaxTrail == 2
\* runs of the viewer's effect followed (the mount and the image changes)
MaxEffects == 2
\* runs of animate() followed
MaxFrames == 3
\* largest pitch and yaw followed, in milliradians
PitchCap == 3200
YawCap == 20
\* arrow keys the user holds at once
MaxHeld == 1

----------------------------------------------------------------------------
(* Strings.                                                                *)

\* All strings over alphabet cs of length lo..hi.
StringsOver(cs, lo, hi) == UNION {[1..n -> cs] : n \in lo..hi}

\* RFC 6838 restricted-name characters (a letter, a digit-like, "+", ".").
TokenChars == {"a", "+", "."}
\* The base64 alphabet: letters and digits, "+", "/", and the "=" padding.
Base64Chars == {"A", "+", "/", "="}
\* The characters the parser reacts to, an ordinary one and a line break.
RawChars == {":", ";", ",", "a", "\n"}

Tokens == StringsOver(TokenChars, 1, MaxTokenLen)
MimeTypes == {t \o <<"/">> \o s : t \in Tokens, s \in Tokens}
Payloads == StringsOver(Base64Chars, 1, MaxPayloadLen)
RawUrls == StringsOver(RawChars, 0, MaxRawLen)

\* JS `undefined` / a failed match, as a value comparable with any string.
Undefined == <<"<undefined>">>

\* s.indexOf(c, from): the first position >= from holding c, 0 when none.
RECURSIVE IndexOf(_, _, _)
IndexOf(s, c, from) ==
    IF from > Len(s) THEN 0
    ELSE IF s[from] = c THEN from
    ELSE IndexOf(s, c, from + 1)

\* String.prototype.split(sep): the segments between the separators, in order;
\* a string without the separator is its own single segment.
RECURSIVE Split(_, _)
Split(s, sep) ==
    LET i == IndexOf(s, sep, 1)
    IN  IF i = 0 THEN <<s>>
        ELSE <<SubSeq(s, 1, i - 1)>> \o Split(SubSeq(s, i + 1, Len(s)), sep)

\* parts[k] of a JS array (0-based), `undefined` past its end.
At(parts, k) == IF k + 1 <= Len(parts) THEN parts[k + 1] ELSE Undefined

\* The lazy group of /:(.*?);/ tried from the colon at position i: the text up
\* to the first ";" after it, provided no line terminator comes first ("." does
\* not match one); Undefined when the attempt fails.
RECURSIVE LazyUpToSemicolon(_, _, _)
LazyUpToSemicolon(s, i, j) ==
    IF j > Len(s) THEN Undefined
    ELSE IF s[j] = ";" THEN SubSeq(s, i + 1, j - 1)
    ELSE IF s[j] = "\n" THEN Undefined
    ELSE LazyUpToSemicolon(s, i, j + 1)

\* A variant that forgets the leading colon of the pattern: /(.*?);/.
RECURSIVE MimeMatchNoColon(_, _)
MimeMatchNoColon(s, from) ==
    IF from > Len(s) THEN Undefined
    ELSE LET g == LazyUpToSemicolon(s, from - 1, from)
         IN  IF g # Undefined THEN g ELSE MimeMatchNoColon(s, from + 1)

\* s.match(/:(.*?);/)[1], searched from position `from`: the leftmost colon
\* from which the pattern matches decides; Undefined when match() is null.
RECURSIVE MimeMatch(_, _)
MimeMatch(s, from) ==
    LET i == IndexOf(s, ":", from)
    IN  IF i = 0 THEN Undefined
        ELSE LET g == LazyUpToSemicolon(s, i, i + 1)
             IN  IF g # Undefined THEN g ELSE MimeMatch(s, i + 1)

----------------------------------------------------------------------------
(* The data-URL codec.                                                     *)

FormatError == [ok |-> FALSE, error |-> "Invalid data URL format"]

\* `data:${mimeType};base64,${data}`
DataUrl(mimeType, data) ==
    <<"d", "a", "t", "a", ":">> \o mimeType
        \o <<";", "b", "a", "s", "e", "6", "4", ",">> \o data

\* A decoder that accepts an empty payload segment.
dataUrlToBase64NoPayloadCheck(dataUrl) ==
    LET parts == Split(dataUrl, ",")
        mime == MimeMatch(parts[1], 1)
    IN  IF mime = Undefined \/ mime = <<>> \/ At(parts, 1) = Undefined
        THEN FormatError
        ELSE [ok |-> TRUE, mimeType |-> mime, data |-> At(parts, 1)]

dataUrlToBase64(dataUrl) ==
    LET parts == Split(dataUrl, ",")
        mimeMatch == MimeMatch(parts[1], 1)
    IN  IF mimeMatch = Undefined \/ mimeMatch = <<>>
           \/ At(parts, 1) = Undefined \/ At(parts, 1) = <<>>
        THEN FormatError
        ELSE [ok |-> TRUE, mimeType |-> mimeMatch, data |-> At(parts, 1)]

----------------------------------------------------------------------------
(* The codec on its own: an input is drawn, encoded when it is a           *)
(* (mimeType, data) pair, and decoded.                                     *)

NotRun == [ok |-> FALSE, error |-> "not run"]
CodecIdle ==
    [stage |-> "idle", mimeType |-> <<>>, data |-> <<>>, dataUrl |-> <<>>,
     decoded |-> NotRun]

InitCodec ==
    codec \in
        {[stage |-> "pair", mimeType |-> m, data |-> d, dataUrl |-> <<>>,
          decoded |-> NotRun] : m \in MimeTypes, d \in Payloads}
        \cup
        {[stage |-> "url", mimeType |-> <<>>, data |-> <<>>, dataUrl |-> u,
          decoded |-> NotRun] : u \in RawUrls}

EncodeDataUrl ==
    /\ UNCHANGED <<svcVars, viewVars, galVars>>
    /\ codec.stage = "pair"
    /\ codec' = [codec EXCEPT !.stage = "encoded",
                              !.dataUrl = DataUrl(codec.mimeType, codec.data)]

DecodeDataUrl ==
    /\ UNCHANGED <<svcVars, viewVars, galVars>>
    /\ codec.stage \in {"encoded", "url"}
    /\ codec' = [codec EXCEPT
                    !.stage = IF codec.stage = "encoded" THEN "roundtrip" ELSE "decoded",
                    !.decoded = dataUrlToBase64(codec.dataUrl)]


----------------------------------------------------------------------------
(* The AI service and the values exchanged with it.                        *)

\* Array(4): the number of image requests of one round.
ImageCount == 4

\* An uploaded anchor photo: its MIME type and its content in base64.
AnchorFile == [file |-> TRUE, type |-> <<"a", "/", "a">>, base64 |-> <<"A", "=">>]
AnchorText == [file |-> FALSE, type |-> <<>>, base64 |-> <<>>]
\* (anchorType, anchorValue) as the callers pass them.
Anchors == {<<"upload", AnchorFile>>, <<"description", AnchorText>>}
Lists == {<<"milk", "eggs">>}
EditPrompts == {"make it night"}

\* The text fields of a palace.
TextValue(title, imagePrompt) ==
    [type |-> "object", title |-> title, imagePrompt |-> imagePrompt,
     scenes |-> <<[locus |-> "door", description |-> title]>>,
     quickRecap |-> <<[item |-> "milk", locusHint |-> "door"]>>]
TextValues == {TextValue("T1", "P1"), TextValue("T2", "P2")}
JsonNull == [type |-> "null"]
NoValue == [type |-> "none"]

\* response.text of a text response: a JSON document of an object, the JSON
\* document `null`, or text that is no JSON.
TextDocs ==
    {[json |-> "value", value |-> v] : v \in TextValues \cup {JsonNull}}
        \cup {[json |-> "invalid", value |-> NoValue]}
\* What generateContent gives for a text request: it rejects, or it resolves
\* with a response carrying a document.
TextResponses ==
    {[rejected |-> TRUE, doc |-> [json |-> "invalid", value |-> NoValue]]}
        \cup {[rejected |-> FALSE, doc |-> d] : d \in TextDocs}
NoResponse == [rejected |-> FALSE, doc |-> [json |-> "none", value |-> NoValue]]

\* A parser that takes text that is no JSON for an empty palace text.
JsonParseLenient(doc) ==
    IF doc.json = "invalid"
    THEN [ok |-> TRUE,
          value |-> [type |-> "object", title |-> "", imagePrompt |-> "",
                     scenes |-> <<>>, quickRecap |-> <<>>]]
    ELSE [ok |-> TRUE, value |-> doc.value]

\* JSON.parse: the value of a document, a SyntaxError for text that is no JSON.
JsonParse(doc) ==
    IF doc.json = "invalid" THEN [ok |-> FALSE, value |-> NoValue]
    ELSE [ok |-> TRUE, value |-> doc.value]

\* The parts of a request or a response.
InlinePart(mimeType, data) ==
    [kind |-> "inlineData", mimeType |-> mimeType, data |-> data, text |-> <<>>]
TextPart(text) ==
    [kind |-> "text", mimeType |-> <<>>, data |-> <<>>, text |-> text]

\* The images the service may return: one MIME type, with a payload or with
\* an empty one.
AiMimeType == <<"a", "/", "a">>
AiPayloads == {<<"A">>, <<>>}
AiParts == {InlinePart(AiMimeType, d) : d \in AiPayloads} \cup {TextPart(<<"no">>)}
\* What generateContent gives for an image request: it rejects, or it
\* resolves with a response without candidates or with up to two parts.
ImageResponses ==
    {[rejected |-> TRUE, candidates |-> FALSE, parts |-> <<>>],
     [rejected |-> FALSE, candidates |-> FALSE, parts |-> <<>>]}
        \cup {[rejected |-> FALSE, candidates |-> TRUE, parts |-> ps]
                : ps \in UNION {[1..n -> AiParts] : n \in 0..2}}

ApiError == "generateContent rejected"
FileError == "FileReader error"
TypeError == "TypeError: cannot read properties of null"
InvalidResponse == "The AI returned an invalid response. Please try again."
InvalidRegenResponse ==
    "The AI returned an invalid response during text regeneration. Please try again."
GenerateFailed ==
    "Failed to generate or edit the image. The model may have returned text instead."
EditFailed == "Failed to edit the image. The model may have returned text instead."
NoNewImages == "Failed to generate new images during regeneration step."

\* reader.result.split(',')[1] of readAsDataURL(file)
fileToBase64(file) == At(Split(DataUrl(file.type, file.base64), ","), 1)

\* anchorType === 'upload' && anchorValue instanceof File
UsesFile(anchorType, anchorValue) == anchorType = "upload" /\ anchorValue.file

\* list.map(item => `- ${item}`).join('\n')
listToMemorize(list) == [i \in 1..Len(list) |-> <<"- ", list[i]>>]

NoReq == [model |-> "none", parts |-> <<>>]

\* The request of generateTextContent: the photo when one is used, then the
\* user prompt.
TextRequest(anchorType, anchorValue, list) ==
    LET usesFile == UsesFile(anchorType, anchorValue)
        userPrompt ==
            [template |-> "buildUserPrompt", anchorType |-> anchorType,
             anchorDetails |-> IF usesFile THEN "The user's provided photograph."
                               ELSE "anchorValue",
             list |-> listToMemorize(list)]
    IN  [model |-> "gemini-2.5-flash",
         parts |-> (IF usesFile
                    THEN <<InlinePart(anchorValue.type, fileToBase64(anchorValue))>>
                    ELSE <<>>) \o <<TextPart(userPrompt)>>]

\* The request of regenerateTextContent: the reference image, then the
\* regeneration prompt.
RegenTextRequest(base64Image, list) ==
    [model |-> "gemini-2.5-flash",
     parts |-> <<InlinePart(base64Image.mimeType, base64Image.data),
                 TextPart([template |-> "buildRegenerationUserPrompt",
                           list |-> listToMemorize(list)])>>]

\* The request of generateOneImage: the photo and the prompt, or the prompt
\* with the style suffix.
ImageRequest(anchorType, anchorValue, prompt) ==
    [model |-> "gemini-2.5-flash-image-preview",
     parts |-> IF UsesFile(anchorType, anchorValue)
               THEN <<InlinePart(anchorValue.type, fileToBase64(anchorValue)),
                      TextPart([prompt |-> prompt, style |-> FALSE])>>
               ELSE <<TextPart([prompt |-> prompt, style |-> TRUE])>>]

\* The request of editOneImage: the base image and the edit prompt.
EditRequest(mimeType, base64Data, prompt) ==
    [model |-> "gemini-2.5-flash-image-preview",
     parts |-> <<InlinePart(mimeType, base64Data),
                 TextPart([prompt |-> prompt, style |-> FALSE])>>]

\* parts.find(part => part.inlineData): the position of the first inline
\* image part, 0 when there is none.
RECURSIVE FindInline(_, _)
FindInline(parts, from) ==
    IF from > Len(parts) THEN 0
    ELSE IF parts[from].kind = "inlineData" THEN from
    ELSE FindInline(parts, from + 1)

\* A scan that takes the last part when it finds no image part.
ScanImageResponseAnyPart(response, message) ==
    IF response.rejected THEN [st |-> "rejected", url |-> <<>>, err |-> ApiError]
    ELSE IF Len(response.parts) = 0 THEN [st |-> "rejected", url |-> <<>>, err |-> message]
    ELSE LET p == response.parts[Len(response.parts)]
         IN  [st |-> "fulfilled", url |-> DataUrl(p.mimeType, p.data), err |-> ""]

\* How a generateOneImage / editOneImage promise settles on a response: the
\* data URL of the first inline image part, or the content error.
ScanImageResponse(response, message) ==
    IF response.rejected THEN [st |-> "rejected", url |-> <<>>, err |-> ApiError]
    ELSE LET k == IF response.candidates THEN FindInline(response.parts, 1) ELSE 0
         IN  IF k # 0
             THEN [st |-> "fulfilled",
                   url |-> DataUrl(response.parts[k].mimeType, response.parts[k].data),
                   err |-> ""]
             ELSE [st |-> "rejected", url |-> <<>>, err |-> message]

----------------------------------------------------------------------------
(* The workflows.  A step is what runs between two awaits: an event (a     *)
(* call, a file read ending, a response arriving) and every continuation   *)
(* it resumes, up to the next await.                                       *)

NoOutcome == [kind |-> "none"]
Thrown(error) == [kind |-> "thrown", error |-> error]
Returned(value) == [kind |-> "returned", value |-> value]

NoCall == [op |-> "none"]
IdleSlot == [st |-> "idle", req |-> NoReq, url |-> <<>>, err |-> ""]
NotJoined == [state |-> "none", values |-> <<>>, reason |-> ""]
Joining == [state |-> "pending", values |-> <<>>, reason |-> ""]

Slots == 1..ImageCount

\* A client that sends every request twice.
IssueTwice(count, kind, n) == [count EXCEPT ![kind] = @ + 2 * n]

\* ai.models.generateContent(...): n requests of a kind go out.
Issue(count, kind, n) == [count EXCEPT ![kind] = @ + n]

\* A combinator that waits for all four and keeps the images it got.
RECURSIVE Fulfilled(_, _)
Fulfilled(s, k) ==
    IF k > ImageCount THEN <<>>
    ELSE (IF s[k].st = "fulfilled" THEN <<s[k].url>> ELSE <<>>) \o Fulfilled(s, k + 1)
PromiseAllSettled(j, s, i) ==
    IF j.state # "pending" THEN j
    ELSE IF \A k \in Slots : s[k].st \in {"fulfilled", "rejected"}
         THEN [state |-> "fulfilled", values |-> Fulfilled(s, 1), reason |-> ""]
         ELSE j

\* A combinator that collects the images as they arrive.
PromiseAllByArrival(j, s, i) ==
    LET order == Append(arrival, i)
    IN  IF j.state # "pending" THEN j
        ELSE IF s[i].st = "rejected"
             THEN [state |-> "rejected", values |-> <<>>, reason |-> s[i].err]
        ELSE IF \A k \in Slots : s[k].st = "fulfilled"
             THEN [state |-> "fulfilled",
                   values |-> [k \in 1..Len(order) |-> s[order[k]].url],
                   reason |-> ""]
        ELSE j

\* A combinator that waits for all four before it rejects.
PromiseAllWaiting(j, s, i) ==
    IF j.state # "pending" THEN j
    ELSE IF \E k \in Slots : s[k].st \notin {"fulfilled", "rejected"} THEN j
    ELSE IF \E k \in Slots : s[k].st = "rejected"
         THEN [state |-> "rejected", values |-> <<>>, reason |-> s[i].err]
    ELSE [state |-> "fulfilled", values |-> [k \in Slots |-> s[k].url], reason |-> ""]

\* A combinator that stops waiting for the last of the four and fulfils with
\* the images it has.
PromiseAllTimedOut(j, s, i) ==
    IF j.state # "pending" THEN j
    ELSE IF s[i].st = "rejected"
         THEN [state |-> "rejected", values |-> <<>>, reason |-> s[i].err]
    ELSE IF Cardinality({k \in Slots : s[k].st = "fulfilled"}) >= ImageCount - 1
         THEN [state |-> "fulfilled", values |-> [k \in Slots |-> s[k].url],
               reason |-> ""]
    ELSE j

\* A combinator that a rejection leaves pending.
PromiseAllFulfilledOnly(j, s, i) ==
    IF j.state # "pending" THEN j
    ELSE IF \A k \in Slots : s[k].st = "fulfilled"
         THEN [state |-> "fulfilled", values |-> [k \in Slots |-> s[k].url],
               reason |-> ""]
    ELSE j

\* Promise.all(imagePromises) once promise i of s has settled: it rejects with
\* the first rejection, fulfils with the values in the order of the array when
\* all have fulfilled, and is settled once.
PromiseAll(j, s, i) ==
    IF j.state # "pending" THEN j
    ELSE IF s[i].st = "rejected"
         THEN [state |-> "rejected", values |-> <<>>, reason |-> s[i].err]
    ELSE IF \A k \in Slots : s[k].st = "fulfilled"
         THEN [state |-> "fulfilled", values |-> [k \in Slots |-> s[k].url],
               reason |-> ""]
    ELSE j

\* A result that puts the image set itself where the history belongs.
PalaceUnwrapped(content, imageUrls) ==
    IF content.type = "object"
    THEN [title |-> content.title, imagePrompt |-> content.imagePrompt,
          scenes |-> content.scenes, quickRecap |-> content.quickRecap,
          imageGenerations |-> imageUrls]
    ELSE [imageGenerations |-> imageUrls]

\* { ...textContent, imageGenerations: [imageUrls] }
Palace(content, imageUrls) ==
    IF content.type = "object"
    THEN [title |-> content.title, imagePrompt |-> content.imagePrompt,
          scenes |-> content.scenes, quickRecap |-> content.quickRecap,
          imageGenerations |-> <<imageUrls>>]
    ELSE [imageGenerations |-> <<imageUrls>>]

\* A regeneration result that keeps the title of the palace being replaced.
RegeneratedKeepingTitle(content, imageUrls) ==
    IF content.type = "object"
    THEN [title |-> call.original.title, imagePrompt |-> content.imagePrompt,
          scenes |-> content.scenes, quickRecap |-> content.quickRecap,
          imageGenerations |-> <<imageUrls>>]
    ELSE [imageGenerations |-> <<imageUrls>>]

\* { ...newTextContent, imageGenerations: [newImageUrls] }
Regenerated(content, imageUrls) == Palace(content, imageUrls)

\* The end of generateTextContent / regenerateTextContent: the parsed value
\* of the response, or the error thrown.
ParseTextResponse(response, message) ==
    IF response.rejected THEN [ok |-> FALSE, value |-> NoValue, error |-> ApiError]
    ELSE LET r == JsonParse(response.doc)
         IN  IF r.ok THEN [ok |-> TRUE, value |-> r.value, error |-> ""]
             ELSE [ok |-> FALSE, value |-> NoValue, error |-> message]

InitService ==
    /\ pc = "idle"
    /\ call = NoCall
    /\ textReq = NoReq
    /\ textResp = NoResponse
    /\ textContent = NoValue
    /\ slots = [i \in Slots |-> IdleSlot]
    /\ arrival = <<>>
    /\ joined = NotJoined
    /\ issued = [text |-> 0, image |-> 0]
    /\ outcome = NoOutcome

\* The call ends by throwing.
Throw(error) ==
    /\ pc' = "done"
    /\ outcome' = Thrown(error)

\* generateMemoryPalace is called: generateTextContent runs to its first
\* await, the file read of an uploaded photo or the text request.
generateMemoryPalace(anchorType, anchorValue, list) ==
    /\ pc = "idle"
    /\ call' = [op |-> "generateMemoryPalace", anchorType |-> anchorType,
                anchorValue |-> anchorValue, list |-> list,
                baseImageUrl |-> <<>>, editPrompt |-> "", original |-> NoValue]
    /\ IF UsesFile(anchorType, anchorValue)
       THEN /\ pc' = "textFile"
            /\ UNCHANGED <<textReq, issued>>
       ELSE /\ pc' = "textWait"
            /\ textReq' = TextRequest(anchorType, anchorValue, list)
            /\ issued' = Issue(issued, "text", 1)
    /\ UNCHANGED <<codec, viewVars, galVars, textResp, textContent, slots, arrival, joined, outcome>>

\* fileToBase64 of generateTextContent ends: the text request goes out, or
\* the read error is thrown.
TextFileRead(loaded) ==
    /\ pc = "textFile"
    /\ IF loaded
       THEN /\ pc' = "textWait"
            /\ textReq' = TextRequest(call.anchorType, call.anchorValue, call.list)
            /\ issued' = Issue(issued, "text", 1)
            /\ UNCHANGED outcome
       ELSE /\ Throw(FileError)
            /\ UNCHANGED <<textReq, issued>>
    /\ UNCHANGED <<codec, viewVars, galVars, call, textResp, textContent, slots, arrival, joined>>

\* The text response of generateMemoryPalace arrives: generateTextContent
\* parses it, and generateImages starts the four generateOneImage, each
\* running to its first await (the file read, or its request).
TextResponseArrives(response) ==
    /\ pc = "textWait"
    /\ call.op = "generateMemoryPalace"
    /\ textResp' = response
    /\ LET parsed == ParseTextResponse(response, InvalidResponse)
           usesFile == UsesFile(call.anchorType, call.anchorValue)
       IN  IF ~parsed.ok
           THEN /\ Throw(parsed.error)
                /\ UNCHANGED <<textContent, slots, joined, issued>>
           ELSE IF parsed.value.type # "object"
           THEN \* textContent.imagePrompt of null
                /\ Throw(TypeError)
                /\ textContent' = parsed.value
                /\ UNCHANGED <<slots, joined, issued>>
           ELSE /\ textContent' = parsed.value
                /\ pc' = "images"
                /\ joined' = Joining
                /\ slots' = [i \in Slots |->
                               IF usesFile
                               THEN [IdleSlot EXCEPT !.st = "reading"]
                               ELSE [IdleSlot EXCEPT
                                       !.st = "pending",
                                       !.req = ImageRequest(call.anchorType,
                                                   call.anchorValue,
                                                   parsed.value.imagePrompt)]]
                /\ issued' = IF usesFile THEN issued
                             ELSE Issue(issued, "image", ImageCount)
                /\ UNCHANGED outcome
    /\ UNCHANGED <<codec, viewVars, galVars, call, textReq, arrival>>

\* A reference that is the last of the new images.
referenceImageUrlLast(newImageUrls) == newImageUrls[Len(newImageUrls)]

\* const referenceImageUrl = newImageUrls[0]
referenceImageUrl(newImageUrls) == newImageUrls[1]

\* What resumes when Promise.all settles as j: generateMemoryPalace returns
\* the palace or throws; regeneratePalace throws, or decodes the first new
\* image and sends the text request.
AfterImages(j) ==
    IF j.state = "rejected"
    THEN /\ Throw(j.reason)
         /\ UNCHANGED <<textReq, issued>>
    ELSE IF call.op = "generateMemoryPalace"
    THEN /\ pc' = "done"
         /\ outcome' = Returned(Palace(textContent, j.values))
         /\ UNCHANGED <<textReq, issued>>
    ELSE IF Len(j.values) = 0
    THEN /\ Throw(NoNewImages)
         /\ UNCHANGED <<textReq, issued>>
    ELSE LET reference == dataUrlToBase64(referenceImageUrl(j.values))
         IN  IF ~reference.ok
             THEN /\ Throw(reference.error)
                  /\ UNCHANGED <<textReq, issued>>
             ELSE /\ pc' = "textWait"
                  /\ textReq' = RegenTextRequest(
                                   [mimeType |-> reference.mimeType,
                                    data |-> reference.data], call.list)
                  /\ issued' = Issue(issued, "text", 1)
                  /\ UNCHANGED outcome

\* Promise i settles as `settled`; Promise.all reacts, and when that settles
\* it the awaiting workflow resumes.
Settle(i, settled) ==
    LET s == [slots EXCEPT ![i] = [@ EXCEPT !.st = settled.st,
                                             !.url = settled.url,
                                             !.err = settled.err]]
        j == PromiseAll(joined, s, i)
    IN  /\ slots' = s
        /\ arrival' = IF joined.state = "pending" THEN Append(arrival, i) ELSE arrival
        /\ joined' = j
        /\ IF joined.state = "pending" /\ j.state # "pending"
           THEN AfterImages(j)
           ELSE UNCHANGED <<pc, outcome, textReq, issued>>

\* fileToBase64 of the i-th generateOneImage ends: its request goes out, or
\* the promise rejects with the read error.
ImageFileRead(i, loaded) ==
    /\ slots[i].st = "reading"
    /\ IF loaded
       THEN /\ slots' = [slots EXCEPT ![i] =
                           [@ EXCEPT !.st = "pending",
                                     !.req = ImageRequest(call.anchorType,
                                                 call.anchorValue,
                                                 textContent.imagePrompt)]]
            /\ issued' = Issue(issued, "image", 1)
            /\ UNCHANGED <<pc, outcome, textReq, arrival, joined>>
       ELSE Settle(i, [st |-> "rejected", url |-> <<>>, err |-> FileError])
    /\ UNCHANGED <<codec, viewVars, galVars, call, textResp, textContent>>

\* The response to the i-th image request arrives.
ImageResponseArrives(i, response) ==
    /\ slots[i].st = "pending"
    /\ Settle(i, ScanImageResponse(response,
                    IF call.op = "generateMemoryPalace" THEN GenerateFailed
                    ELSE EditFailed))
    /\ UNCHANGED <<codec, viewVars, galVars, call, textResp, textContent>>

\* regeneratePalace is called: editAndGenerateImages decodes the base image
\* and starts the four editOneImage, each sending its request.
regeneratePalace(baseImageUrl, editPrompt, list, original) ==
    /\ pc = "idle"
    /\ call' = [op |-> "regeneratePalace", anchorType |-> "", anchorValue |-> AnchorText,
                list |-> list, baseImageUrl |-> baseImageUrl,
                editPrompt |-> editPrompt, original |-> original]
    /\ LET base == dataUrlToBase64(baseImageUrl)
       IN  IF ~base.ok
           THEN /\ Throw(base.error)
                /\ UNCHANGED <<slots, joined, issued>>
           ELSE /\ pc' = "images"
                /\ joined' = Joining
                /\ slots' = [i \in Slots |->
                               [IdleSlot EXCEPT
                                  !.st = "pending",
                                  !.req = EditRequest(base.mimeType, base.data,
                                              editPrompt)]]
                /\ issued' = Issue(issued, "image", ImageCount)
                /\ UNCHANGED outcome
    /\ UNCHANGED <<codec, viewVars, galVars, textReq, textResp, textContent, arrival>>

\* The text response of regeneratePalace arrives: regenerateTextContent
\* parses it and regeneratePalace returns the partial palace, or throws.
RegenTextResponseArrives(response) ==
    /\ pc = "textWait"
    /\ call.op = "regeneratePalace"
    /\ textResp' = response
    /\ LET parsed == ParseTextResponse(response, InvalidRegenResponse)
       IN  IF ~parsed.ok
           THEN /\ Throw(parsed.error)
                /\ UNCHANGED textContent
           ELSE /\ textContent' = parsed.value
                /\ pc' = "done"
                /\ outcome' = Returned(Regenerated(parsed.value, joined.values))
    /\ UNCHANGED <<codec, viewVars, galVars, call, textReq, slots, arrival, joined, issued>>

\* The base images handed to regeneratePalace: arbitrary short strings, the
\* data URLs of images the service returns, and that of another image.
BaseChars == {":", ";", ",", "a"}
BaseImageUrls ==
    StringsOver(BaseChars, 0, MaxBaseLen)
        \cup {DataUrl(AiMimeType, d) : d \in AiPayloads \cup {<<"+">>}}

NextService ==
    \/ \E a \in Anchors, l \in Lists : generateMemoryPalace(a[1], a[2], l)
    \/ \E loaded \in BOOLEAN : TextFileRead(loaded)
    \/ \E r \in TextResponses : TextResponseArrives(r)
    \/ \E i \in Slots, loaded \in BOOLEAN : ImageFileRead(i, loaded)
    \/ \E i \in Slots, r \in ImageResponses : ImageResponseArrives(i, r)
    \/ \E u \in BaseImageUrls, e \in EditPrompts, l \in Lists, o \in TextValues :
            regeneratePalace(u, e, l, o)
    \/ \E r \in TextResponses : RegenTextResponseArrives(r)

----------------------------------------------------------------------------
(* The panorama viewer (ThreeDViewer).  Angles are in milliradians; the    *)
(* limit of the clamp, Math.PI / 2 = 1570.79... mrad, is rounded down.     *)

\* const rotationSpeed = 0.005 (radians per pixel of drag)
rotationSpeed == 5
\* const speed = 0.02 (radians per frame of a held arrow key)
speed == 20
\* Math.PI / 2
HalfPi == 1570

ArrowKeys == {"ArrowUp", "ArrowDown", "ArrowLeft", "ArrowRight"}
\* The keys of keyboard events: the arrows and another key.
Keys == ArrowKeys \cup {"a"}
\* Pointer positions (clientX, clientY) of mouse events.
Points == {[x |-> 0, y |-> 0], [x |-> 4, y |-> 315]}
\* imageUrl props: no image, or one of two images.
ImageUrls == {"", "img1", "img2"}
\* clientWidth and clientHeight of the mount element.
Sizes == {[w |-> 4, h |-> 3], [w |-> 16, h |-> 9]}

\* The effect instances (runs of the useEffect body) of one component.
Insts == 1..MaxEffects

WindowEvents == {"keydown", "keyup", "mouseup", "resize"}
MountEvents == {"mousedown", "mousemove", "mouseleave"}
\* The listeners one run of the effect registers (lines 346-351 and 383).
Registered(g) ==
    {[target |-> "window", type |-> t, inst |-> g] : t \in WindowEvents}
        \cup {[target |-> "mount", type |-> t, inst |-> g] : t \in MountEvents}

\* A cleanup that leaves the window's mouseup listener behind.
RemovedForgettingMouseUp(g) ==
    Registered(g) \ {[target |-> "window", type |-> "mouseup", inst |-> g]}

\* A cleanup that removes the window's listeners and leaves those of the
\* mount element.
RemovedFromWindowOnly(g) ==
    {[target |-> "window", type |-> t, inst |-> g] : t \in WindowEvents}

\* The listeners the cleanup of that run removes (lines 388-400).
Removed(g) ==
    {[target |-> "window", type |-> t, inst |-> g] : t \in {"resize", "keydown", "keyup"}}
        \cup {[target |-> "mount", type |-> t, inst |-> g]
                : t \in {"mousedown", "mousemove", "mouseleave"}}
        \cup {[target |-> "window", type |-> "mouseup", inst |-> g]}

\* A cleanup that leaves the requested animation frame in place.
cancelNothing(fr, g) == fr

\* cancelAnimationFrame(animationFrameId): the frame that the effect run g
\* requested last, the only one it has pending, is withdrawn.
cancelAnimationFrame(fr, g) == fr \ {g}

NoKeys == [k \in ArrowKeys |-> FALSE]

\* A clamp that lets the pitch through.
NoClamp(x) == x

\* Math.max(-Math.PI / 2, Math.min(Math.PI / 2, x))
Clamp(x) ==
    LET lower == IF HalfPi < x THEN HalfPi ELSE x
    IN  IF -HalfPi > lower THEN -HalfPi ELSE lower

\* A frame that clamps the pitch before it applies the arrow keys.
AnimateCameraClampFirst(cam, keys) ==
    LET x0 == Clamp(cam.x)
        x1 == IF keys["ArrowUp"] THEN x0 - speed ELSE x0
        x2 == IF keys["ArrowDown"] THEN x1 + speed ELSE x1
        y1 == IF keys["ArrowLeft"] THEN cam.y + speed ELSE cam.y
        y2 == IF keys["ArrowRight"] THEN y1 - speed ELSE y1
    IN  [cam EXCEPT !.x = x2, !.y = y2]

\* The camera after the key adjustments and the clamp of one animate().
AnimateCamera(cam, keys) ==
    LET x1 == IF keys["ArrowUp"] THEN cam.x - speed ELSE cam.x
        x2 == IF keys["ArrowDown"] THEN x1 + speed ELSE x1
        y1 == IF keys["ArrowLeft"] THEN cam.y + speed ELSE cam.y
        y2 == IF keys["ArrowRight"] THEN y1 - speed ELSE y1
    IN  [cam EXCEPT !.x = Clamp(x2), !.y = y2]

\* The camera after handleMouseMove's two rotations.
DragCamera(cam, prev, pos) ==
    [cam EXCEPT !.y = @ - (pos.x - prev.x) * rotationSpeed,
                !.x = @ - (pos.y - prev.y) * rotationSpeed]

Abs(n) == IF n < 0 THEN -n ELSE n
\* The camera angles the model follows.
InRange(cam) == Abs(cam.x) <= PitchCap /\ Abs(cam.y) <= YawCap

Listening(target, type) ==
    {l \in listeners : l.target = target /\ l.type = type}

InitViewer ==
    /\ viewer = [phase |-> "initial", imageUrl |-> "", inst |-> 0, effects |-> 0]
    /\ texture = [g \in Insts |-> "none"]
    /\ sphere = [g \in Insts |-> FALSE]
    /\ camera = [x |-> 0, y |-> 0, aspect |-> [w |-> 4, h |-> 3]]
    /\ keysPressed = NoKeys
    /\ isDragging = FALSE
    /\ previousMousePosition = [x |-> 0, y |-> 0]
    /\ listeners = {}
    /\ frameReq = {}
    /\ frames = 0
    /\ rendered = [pitch |-> 0, inst |-> 0]
    /\ mountSize = [w |-> 4, h |-> 3]
    /\ canvases = {}
    /\ disposed = {}
    /\ threw = FALSE
    /\ dragInProgress = FALSE

\* The body of the effect for imageUrl: nothing without an image; otherwise a
\* new scene, camera and renderer, the texture load started, the listeners
\* registered, and the first animate() run.  ls, fr, cs are the listeners,
\* frame requests and canvases the preceding cleanup left.
Effect(imageUrl, ls, fr, cs) ==
    IF imageUrl = ""
    THEN /\ viewer' = [viewer EXCEPT !.phase = "mounted", !.imageUrl = imageUrl,
                                      !.inst = 0]
         /\ listeners' = ls
         /\ frameReq' = fr
         /\ canvases' = cs
         /\ UNCHANGED <<texture, camera, keysPressed, frames, rendered>>
    ELSE LET g == viewer.effects + 1
             cam == AnimateCamera([x |-> 0, y |-> 0, aspect |-> mountSize], NoKeys)
         IN  /\ viewer' = [phase |-> "mounted", imageUrl |-> imageUrl, inst |-> g,
                           effects |-> g]
             /\ texture' = [texture EXCEPT ![g] = "loading"]
             /\ keysPressed' = NoKeys
             /\ listeners' = ls \cup Registered(g)
             /\ frameReq' = fr \cup {g}
             /\ canvases' = cs \cup {g}
             /\ camera' = cam
             /\ frames' = frames + 1
             /\ rendered' = [pitch |-> cam.x, inst |-> g]

\* The component mounts with its imageUrl prop.
Mount(imageUrl) ==
    /\ UNCHANGED <<codec, svcVars, galVars>>
    /\ viewer.phase = "initial"
    /\ Effect(imageUrl, listeners, frameReq, canvases)
    /\ UNCHANGED <<sphere, isDragging, previousMousePosition, mountSize, disposed,
                   threw, dragInProgress>>

\* The imageUrl prop changes: the cleanup of the running effect, then the
\* effect for the new image.
SetImageUrl(imageUrl) ==
    /\ UNCHANGED <<codec, svcVars, galVars>>
    /\ viewer.phase = "mounted"
    /\ imageUrl # viewer.imageUrl
    /\ viewer.effects < MaxEffects
    /\ frames < MaxFrames
    /\ LET g == viewer.inst
       IN  IF g = 0
           THEN /\ Effect(imageUrl, listeners, frameReq, canvases)
                /\ UNCHANGED disposed
           ELSE /\ Effect(imageUrl, listeners \ Removed(g), cancelAnimationFrame(frameReq, g),
                          canvases \ {g})
                /\ disposed' = disposed \cup {g}
    /\ UNCHANGED <<sphere, isDragging, previousMousePosition, mountSize, threw, dragInProgress>>

\* The component unmounts: the cleanup of the running effect.  The camera,
\* the key state and the refs of the unmounted component are unreachable
\* from then on, and are dropped.
Unmount ==
    /\ UNCHANGED <<codec, svcVars, galVars>>
    /\ viewer.phase = "mounted"
    /\ LET g == viewer.inst
       IN  /\ viewer' = [viewer EXCEPT !.phase = "disposed", !.inst = 0]
           /\ IF g = 0
              THEN UNCHANGED <<listeners, frameReq, canvases, disposed>>
              ELSE /\ listeners' = listeners \ Removed(g)
                   /\ frameReq' = cancelAnimationFrame(frameReq, g)
                   /\ canvases' = canvases \ {g}
                   /\ disposed' = disposed \cup {g}
    /\ camera' = [x |-> 0, y |-> 0, aspect |-> mountSize]
    /\ keysPressed' = NoKeys
    /\ isDragging' = FALSE
    /\ previousMousePosition' = [x |-> 0, y |-> 0]
    /\ dragInProgress' = FALSE
    /\ UNCHANGED <<texture, sphere, frames, rendered, mountSize, threw>>

\* The texture of effect g finishes loading: the sphere is added to its scene.
TextureLoaded(g) ==
    /\ UNCHANGED <<codec, svcVars, galVars>>
    /\ texture[g] = "loading"
    /\ texture' = [texture EXCEPT ![g] = "loaded"]
    /\ sphere' = [sphere EXCEPT ![g] = TRUE]
    /\ UNCHANGED <<viewer, camera, keysPressed, isDragging, previousMousePosition,
                   listeners, frameReq, frames, rendered, mountSize, canvases,
                   disposed, threw, dragInProgress>>

\* A failure callback that also stops the render loop of its effect.
TextureFailedStopping(g) ==
    /\ UNCHANGED <<codec, svcVars, galVars>>
    /\ texture[g] = "loading"
    /\ texture' = [texture EXCEPT ![g] = "failed"]
    /\ frameReq' = frameReq \ {g}
    /\ UNCHANGED <<viewer, sphere, camera, keysPressed, isDragging,
                   previousMousePosition, listeners, frames, rendered,
                   mountSize, canvases, disposed, threw, dragInProgress>>

\* The texture of effect g fails to load: the error is logged.
TextureFailed(g) ==
    /\ UNCHANGED <<codec, svcVars, galVars>>
    /\ texture[g] = "loading"
    /\ texture' = [texture EXCEPT ![g] = "failed"]
    /\ UNCHANGED <<viewer, sphere, camera, keysPressed, isDragging,
                   previousMousePosition, listeners, frameReq, frames, rendered,
                   mountSize, canvases, disposed, threw, dragInProgress>>

\* keydown on the window.
handleKeyDown(key) ==
    /\ UNCHANGED <<codec, svcVars, galVars>>
    /\ Listening("window", "keydown") # {}
    /\ keysPressed' = IF key \in ArrowKeys THEN [keysPressed EXCEPT ![key] = TRUE]
                      ELSE keysPressed
    /\ Cardinality({k \in ArrowKeys : keysPressed'[k]}) <= MaxHeld
    /\ UNCHANGED <<viewer, texture, sphere, camera, isDragging, previousMousePosition,
                   listeners, frameReq, frames, rendered, mountSize, canvases,
                   disposed, threw, dragInProgress>>

\* keyup on the window.
handleKeyUp(key) ==
    /\ UNCHANGED <<codec, svcVars, galVars>>
    /\ Listening("window", "keyup") # {}
    /\ keysPressed' = IF key \in ArrowKeys THEN [keysPressed EXCEPT ![key] = FALSE]
                      ELSE keysPressed
    /\ UNCHANGED <<viewer, texture, sphere, camera, isDragging, previousMousePosition,
                   listeners, frameReq, frames, rendered, mountSize, canvases,
                   disposed, threw, dragInProgress>>

\* mousedown on the mount element: the user begins a drag, and handleMouseDown
\* runs when it is registered.
handleMouseDown(pos) ==
    /\ UNCHANGED <<codec, svcVars, galVars>>
    /\ viewer.phase = "mounted"
    /\ dragInProgress' = TRUE
    /\ IF Listening("mount", "mousedown") # {}
       THEN /\ isDragging' = TRUE
            /\ previousMousePosition' = pos
       ELSE UNCHANGED <<isDragging, previousMousePosition>>
    /\ UNCHANGED <<viewer, texture, sphere, camera, keysPressed, listeners, frameReq,
                   frames, rendered, mountSize, canvases, disposed, threw>>

\* mousemove on the mount element.
handleMouseMove(pos) ==
    /\ UNCHANGED <<codec, svcVars, galVars>>
    /\ Listening("mount", "mousemove") # {}
    /\ IF ~isDragging
       THEN UNCHANGED <<camera, previousMousePosition>>
       ELSE /\ camera' = DragCamera(camera, previousMousePosition, pos)
            /\ InRange(camera')
            /\ previousMousePosition' = pos
    /\ UNCHANGED <<viewer, texture, sphere, keysPressed, isDragging, listeners,
                   frameReq, frames, rendered, mountSize, canvases, disposed, threw, dragInProgress>>

\* mouseup on the window, or mouseleave on the mount element: the user's drag
\* ends, and handleMouseUp runs when it is registered for that event.
handleMouseUp(target, type) ==
    /\ UNCHANGED <<codec, svcVars, galVars>>
    /\ viewer.phase = "mounted"
    /\ dragInProgress' = FALSE
    /\ isDragging' = IF Listening(target, type) # {} THEN FALSE ELSE isDragging
    /\ UNCHANGED <<viewer, texture, sphere, camera, keysPressed,
                   previousMousePosition, listeners, frameReq, frames, rendered,
                   mountSize, canvases, disposed, threw>>

\* The window is resized, and the mount element with it.
handleResize(size) ==
    /\ UNCHANGED <<codec, svcVars, galVars>>
    /\ viewer.phase = "mounted"
    /\ mountSize' = size
    /\ camera' = IF Listening("window", "resize") # {}
                 THEN [camera EXCEPT !.aspect = size] ELSE camera
    /\ UNCHANGED <<viewer, texture, sphere, keysPressed, isDragging,
                   previousMousePosition, listeners, frameReq, frames, rendered,
                   canvases, disposed, threw, dragInProgress>>

\* The browser runs the frame callback of effect g: animate().
animate(g) ==
    /\ UNCHANGED <<codec, svcVars, galVars>>
    /\ g \in frameReq
    /\ frames < MaxFrames
    /\ camera' = AnimateCamera(camera, keysPressed)
    /\ InRange(camera')
    /\ frames' = frames + 1
    /\ rendered' = [pitch |-> camera'.x, inst |-> g]
    /\ UNCHANGED <<viewer, texture, sphere, keysPressed, isDragging,
                   previousMousePosition, listeners, frameReq, mountSize, canvases,
                   disposed, threw, dragInProgress>>

NextViewer ==
    \/ \E u \in ImageUrls : Mount(u)
    \/ \E u \in ImageUrls : SetImageUrl(u)
    \/ Unmount
    \/ \E g \in Insts : TextureLoaded(g)
    \/ \E g \in Insts : TextureFailed(g)
    \/ \E k \in Keys : handleKeyDown(k)
    \/ \E k \in Keys : handleKeyUp(k)
    \/ \E p \in Points : handleMouseDown(p)
    \/ \E p \in Points : handleMouseMove(p)
    \/ handleMouseUp("window", "mouseup")
    \/ handleMouseUp("mount", "mouseleave")
    \/ \E s \in Sizes : handleResize(s)
    \/ \E g \in Insts : animate(g)

----------------------------------------------------------------------------
(* The fullscreen gallery (FullscreenViewer of                             *)
(* src/components/FullscreenViewer.tsx).  The images prop is fixed while   *)
(* the gallery is shown.                                                   *)

\* JavaScript's %: the remainder has the sign of the dividend.
JsRem(a, b) == IF a >= 0 THEN a % b ELSE -((-a) % b)

\* (prevIndex) => (prevIndex + 1) % images.length
NextIndex(prevIndex, length) == JsRem(prevIndex + 1, length)

\* A step back that does not add the length before it takes the remainder.
PrevIndexUnshifted(prevIndex, length) == JsRem(prevIndex - 1, length)

\* (prevIndex) => (prevIndex - 1 + images.length) % images.length
PrevIndex(prevIndex, length) == JsRem(prevIndex - 1 + length, length)

\* The image lists a gallery is opened with: 1 to MaxImages images.
ImageLists == UNION {[1..n -> {"img1", "img2"}] : n \in 1..MaxImages}
NoIndex == -1

\* imageUrl={images[currentIndex]}
imageUrl == images[currentIndex + 1]

\* The trail with one more action, cut to its latest MaxTrail entries.
Trailed(op) ==
    LET t == Append(trail, [op |-> op, from |-> currentIndex])
    IN  IF Len(t) > MaxTrail THEN Tail(t) ELSE t

\* No gallery is shown.
GalleryIdle ==
    /\ images = <<>>
    /\ currentIndex = 0
    /\ lastIndex = NoIndex
    /\ trail = <<>>

\* A gallery is shown for a non-empty list, at an initialIndex within it:
\* useState(initialIndex).
InitGallery ==
    /\ images \in ImageLists
    /\ currentIndex \in 0..(Len(images) - 1)
    /\ lastIndex = NoIndex
    /\ trail = <<>>

\* The Next button, shown for more than one image, is clicked.
handleNext ==
    /\ Len(images) > 1
    /\ currentIndex' = NextIndex(currentIndex, Len(images))
    /\ trail' = Trailed("next")
    /\ UNCHANGED <<codec, svcVars, viewVars, images, lastIndex>>

\* The Previous button, shown for more than one image, is clicked.
handlePrev ==
    /\ Len(images) > 1
    /\ currentIndex' = PrevIndex(currentIndex, Len(images))
    /\ trail' = Trailed("prev")
    /\ UNCHANGED <<codec, svcVars, viewVars, images, lastIndex>>

\* The Close button is clicked or Escape is pressed: onClose(currentIndex).
handleClose ==
    /\ Len(images) > 0
    /\ lastIndex' = currentIndex
    /\ UNCHANGED <<codec, svcVars, viewVars, images, currentIndex, trail>>

NextGallery == handleNext \/ handlePrev \/ handleClose

----------------------------------------------------------------------------
(* The specifications: the workflows, the codec, the viewer and the        *)
(* gallery, each with the others at rest.                                  *)

InitServiceOnly == InitService /\ InitViewer /\ codec = CodecIdle /\ GalleryIdle

SpecService == InitServiceOnly /\ [][NextService]_vars

\* The workflows when every file read and every request to the AI service
\* that was started eventually completes, with a result or with a failure;
\* nothing obliges a caller to start a call.
Completion ==
    /\ WF_vars(\E loaded \in BOOLEAN : TextFileRead(loaded))
    /\ WF_vars(\E r \in TextResponses : TextResponseArrives(r))
    /\ WF_vars(\E r \in TextResponses : RegenTextResponseArrives(r))
    /\ \A i \in Slots :
          /\ WF_vars(\E loaded \in BOOLEAN : ImageFileRead(i, loaded))
          /\ WF_vars(\E r \in ImageResponses : ImageResponseArrives(i, r))

SpecServiceFair == InitServiceOnly /\ [][NextService]_vars /\ Completion

NextCodec == EncodeDataUrl \/ DecodeDataUrl

InitCodecOnly == InitCodec /\ InitService /\ InitViewer /\ GalleryIdle

SpecCodec == InitCodecOnly /\ [][NextCodec]_vars

InitViewerOnly == InitViewer /\ InitService /\ codec = CodecIdle /\ GalleryIdle

SpecViewer == InitViewerOnly /\ [][NextViewer]_vars

InitGalleryOnly == InitGallery /\ InitService /\ InitViewer /\ codec = CodecIdle

SpecGallery == InitGalleryOnly /\ [][NextGallery]_vars

----------------------------------------------------------------------------
(* Properties of the codec.                                                *)

\* C6: dataUrlToBase64 round-trips. For every MIME type `type/subtype` of
\* MimeTypes and every non-empty base64 payload of Payloads, decoding the data
\* URL `data:<mimeType>;base64,<payload>` built from them returns the original
\* (mimeType, data) pair.
C6_RoundTrip ==
    codec.stage = "roundtrip" =>
        codec.decoded = [ok |-> TRUE, mimeType |-> codec.mimeType, data |-> codec.data]

\* A round trip whose MIME type and payload both hold "/" and "+", the
\* characters the two share.
C6_Witness ==
    /\ codec.stage = "roundtrip"
    /\ codec.mimeType = <<"a", "+", "/", ".", "a">>
    /\ codec.data = <<"/", "+">>
    /\ codec.decoded.ok

----------------------------------------------------------------------------
(* Properties of the workflows.                                            *)

AnyRejected == \E i \in Slots : slots[i].st = "rejected"
AllFulfilled == \A i \in Slots : slots[i].st = "fulfilled"
IsGenerate == call.op = "generateMemoryPalace"
IsRegenerate == call.op = "regeneratePalace"
\* The text of a request's prompt part (its last part).
PromptOf(req) == req.parts[Len(req.parts)].text.prompt

\* C1: generateImages and editAndGenerateImages are all-or-nothing. Whenever
\* the combined result succeeds it holds exactly 4 image URLs, one of each
\* request; when any one of the four requests has failed, whichever it is and
\* whatever became of the other three, the combined result is a failure that
\* carries no image, the call has thrown, and nothing was returned.
C1_AllOrNothing ==
    /\ joined.state = "fulfilled" =>
          /\ Len(joined.values) = 4
          /\ AllFulfilled
    /\ AnyRejected =>
          /\ joined.state = "rejected"
          /\ joined.values = <<>>
          /\ outcome.kind = "thrown"

\* Request #3 has failed after the other three succeeded, and the call threw.
C1_Witness ==
    /\ slots[3].st = "rejected"
    /\ \A i \in {1, 2, 4} : slots[i].st = "fulfilled"
    /\ arrival = <<1, 2, 4, 3>>
    /\ outcome.kind = "thrown"

\* C2: the four image URLs are in submission order. Whatever the order in
\* which the four requests complete, entry i of the combined result, and of
\* the image set generateMemoryPalace returns, is the URL made from the
\* response to the i-th request.
C2_SubmissionOrder ==
    /\ joined.state = "fulfilled" =>
          \A i \in 1..4 : joined.values[i] = slots[i].url
    /\ (IsGenerate /\ outcome.kind = "returned") =>
          \A i \in 1..4 : outcome.value.imageGenerations[1][i] = slots[i].url

\* The requests completed in the order 4, 2, 3, 1 with different images.
C2_Witness ==
    /\ joined.state = "fulfilled"
    /\ arrival = <<4, 2, 3, 1>>
    /\ slots[1].url # slots[4].url
    /\ slots[2].url # slots[3].url

\* C3: generateMemoryPalace runs text generation, then image generation. No
\* image step starts and no image request goes out before the text response
\* was received and parsed; every image request carries the imagePrompt of
\* that response; and on success imageGenerations is a sequence of exactly
\* one element, the set of the four image URLs.
C3_TextThenImages ==
    IsGenerate =>
        /\ (issued.image > 0 \/ \E i \in Slots : slots[i].st # "idle") =>
              /\ textResp # NoResponse
              /\ ~textResp.rejected
              /\ textResp.doc.json = "value"
              /\ textContent = textResp.doc.value
              /\ issued.text = 1
        /\ \A i \in Slots : slots[i].req # NoReq =>
              PromptOf(slots[i].req) = textResp.doc.value.imagePrompt
        /\ outcome.kind = "returned" =>
              /\ Len(outcome.value.imageGenerations) = 1
              /\ outcome.value.imageGenerations[1] = [i \in 1..4 |-> slots[i].url]

\* A palace was returned for an uploaded photo and the second text response.
C3_Witness ==
    /\ IsGenerate
    /\ call.anchorType = "upload"
    /\ outcome.kind = "returned"
    /\ outcome.value.imagePrompt = "P2"
    /\ issued.image = 4

\* C4: when the text response is not valid JSON, generateMemoryPalace fails
\* with the content error "invalid AI response": one text request was sent
\* and none again, no image request was sent, no image step was started and
\* no palace is returned.
C4_InvalidJsonFails ==
    (IsGenerate /\ ~textResp.rejected /\ textResp.doc.json = "invalid") =>
        /\ outcome = Thrown(InvalidResponse)
        /\ pc = "done"
        /\ issued = [text |-> 1, image |-> 0]
        /\ \A i \in Slots : slots[i] = IdleSlot
        /\ joined = NotJoined

\* The text response to an uploaded photo was no JSON.
C4_Witness ==
    /\ IsGenerate
    /\ call.anchorType = "upload"
    /\ ~textResp.rejected
    /\ textResp.doc.json = "invalid"
    /\ outcome.kind = "thrown"

\* C5: regeneratePalace returns, on success, a partial result whose image set
\* has length 4 and whose text fields are those of the text response alone:
\* the result is a function of the AI responses, so that two runs that differ
\* only in the text of the original palace and receive the same responses
\* return the same result.
C5_RegenerationIndependent ==
    (IsRegenerate /\ outcome.kind = "returned") =>
        LET r == outcome.value
            v == textResp.doc.value
        IN  /\ r.imageGenerations = <<[i \in 1..4 |-> slots[i].url]>>
            /\ Len(r.imageGenerations[1]) = 4
            /\ IF v.type = "object"
               THEN /\ DOMAIN r = {"title", "imagePrompt", "scenes", "quickRecap",
                                   "imageGenerations"}
                    /\ r.title = v.title
                    /\ r.imagePrompt = v.imagePrompt
                    /\ r.scenes = v.scenes
                    /\ r.quickRecap = v.quickRecap
               ELSE DOMAIN r = {"imageGenerations"}

\* A regeneration succeeded whose new title is not the original palace's.
C5_Witness ==
    /\ IsRegenerate
    /\ outcome.kind = "returned"
    /\ textResp.doc.value.type = "object"
    /\ call.original.title # outcome.value.title

\* The three ways C7 names for a data URL to be malformed, read off the
\* characters: no comma; no colon followed by a semicolon before the first
\* comma; nothing between the first comma and the next (or the end).
NoComma(u) == \A i \in 1..Len(u) : u[i] # ","
FirstComma(u) == CHOOSE c \in 1..Len(u) : u[c] = "," /\ \A i \in 1..(c - 1) : u[i] # ","
NoMimeMatch(u) ==
    LET n == IF NoComma(u) THEN Len(u) ELSE FirstComma(u) - 1
    IN  ~\E i \in 1..n, j \in 1..n : i < j /\ u[i] = ":" /\ u[j] = ";"
EmptyPayload(u) ==
    /\ ~NoComma(u)
    /\ FirstComma(u) = Len(u) \/ u[FirstComma(u) + 1] = ","
Malformed(u) == NoComma(u) \/ NoMimeMatch(u) \/ EmptyPayload(u)

\* dataUrlToBase64 signals the format error on every malformed string.
MalformedRejected == \A u \in RawUrls : Malformed(u) => dataUrlToBase64(u) = FormatError

\* C7: a malformed data URL (no comma separator, no MIME match, or an empty
\* payload segment) makes dataUrlToBase64 signal the format error instead of
\* returning a value, and regeneratePalace called with such a base image
\* fails with that error before any request to the AI service is sent.
C7_MalformedBaseRejected ==
    /\ MalformedRejected
    /\ (IsRegenerate /\ Malformed(call.baseImageUrl)) =>
          /\ dataUrlToBase64(call.baseImageUrl) = FormatError
          /\ outcome = Thrown("Invalid data URL format")
          /\ pc = "done"
          /\ issued = [text |-> 0, image |-> 0]
          /\ textReq = NoReq
          /\ \A i \in Slots : slots[i] = IdleSlot

\* regeneratePalace was called with a base image whose payload is empty.
C7_Witness ==
    /\ IsRegenerate
    /\ call.baseImageUrl = <<":", "a", ";", ",">>
    /\ EmptyPayload(call.baseImageUrl)
    /\ outcome.kind = "thrown"

\* A failure the run has met: a rejected or unparsable text response, a
\* rejected image promise, or a base image that does not decode.
FailureMet ==
    \/ textResp # NoResponse /\ (textResp.rejected \/ textResp.doc.json = "invalid")
    \/ joined.state = "rejected"
    \/ IsRegenerate /\ ~dataUrlToBase64(call.baseImageUrl).ok

\* C10: no request is retried. A run of generateMemoryPalace sends at most 1
\* text request and at most 4 image requests, a run of regeneratePalace at
\* most 4 image-edit requests and at most 1 text request, whether it ends in
\* success or in an error; and every error ends the run by being thrown to
\* the caller.
C10_NoRetry ==
    /\ issued.text <= 1
    /\ issued.image <= 4
    /\ FailureMet => (pc = "done" /\ outcome.kind = "thrown")
    /\ outcome.kind = "thrown" => pc = "done"

\* A regeneration failed on its text response, after all five requests.
C10_Witness ==
    /\ IsRegenerate
    /\ outcome = Thrown(InvalidRegenResponse)
    /\ issued = [text |-> 1, image |-> 4]

\* C11: the first failure of one of the four concurrent image requests ends
\* the call at once. In the step in which the first request fails the combined
\* outcome is rejected and the call throws that request's error, while the
\* siblings are left as they are, not waited for and not canceled; after that
\* a sibling may still read its file, send its request and complete, but the
\* outcome, the combined result and the point the call has reached never
\* change again, so that no sibling's result reaches the caller.
C11_FirstFailureEnds ==
    [][/\ (~AnyRejected /\ AnyRejected') =>
             /\ joined'.state = "rejected"
             /\ joined'.values = <<>>
             /\ pc' = "done"
             /\ \E i \in Slots :
                   /\ slots'[i].st = "rejected"
                   /\ outcome' = Thrown(slots'[i].err)
                   /\ \A k \in Slots \ {i} : slots'[k] = slots[k]
       /\ joined.state = "rejected" =>
             /\ outcome' = outcome
             /\ joined' = joined
             /\ pc' = pc
             /\ textReq' = textReq
             /\ \A k \in Slots :
                   /\ slots[k].st = "reading" => slots'[k].st \in {"reading", "pending", "rejected"}
                   /\ slots[k].st = "pending" => slots'[k].st \in {"pending", "fulfilled", "rejected"}
      ]_vars

\* Request #3 failed first and the call threw; after that request #1
\* completed with an image, and request #2 is still under way.
C11_Witness ==
    /\ arrival = <<3>>
    /\ joined.state = "rejected"
    /\ slots[3].st = "rejected"
    /\ slots[1].st = "fulfilled"
    /\ slots[2].st = "pending"
    /\ outcome = Thrown(slots[3].err)

\* A request to the AI service was sent and its response has not arrived.
\* No step of the workflows is forced, so a request that is outstanding in a
\* state may stay so for ever: that is a request that hangs.
TextOutstanding == pc = "textWait"
ImageOutstanding(i) == slots[i].st = "pending"
Outstanding == TextOutstanding \/ \E i \in Slots : ImageOutstanding(i)

\* C12 as stated: while any request sent to the AI service is outstanding,
\* the call has not completed, neither with a result nor with an error.
C12_AnyHangBlocks == Outstanding => pc # "done"

\* C12, amended: no timeout is applied. The call completes only in a step in
\* which a response arrives, a file read ends or the base image fails to
\* decode; it returns a result only when no request is outstanding; and it
\* completes while a request is outstanding only by throwing the error of
\* another image request that failed, so that a text request that hangs, and
\* an image request that hangs while none of its siblings fails, keep the call
\* from ever completing.
C12_HangBlocks ==
    /\ [](/\ TextOutstanding => outcome = NoOutcome
          /\ outcome.kind = "returned" => ~Outstanding
          /\ (Outstanding /\ pc = "done") =>
                /\ joined.state = "rejected"
                /\ \E k \in Slots : slots[k].st = "rejected" /\ outcome = Thrown(joined.reason)
          /\ (pc = "images" /\ ~AnyRejected) => outcome = NoOutcome)
    /\ [][(pc # "done" /\ pc' = "done") =>
             \/ textResp' # textResp
             \/ \E i \in Slots : /\ slots[i].st \in {"reading", "pending"}
                                 /\ slots'[i].st \in {"fulfilled", "rejected"}
             \/ pc = "textFile"
             \/ pc = "idle" /\ ~dataUrlToBase64(call'.baseImageUrl).ok]_vars

\* Three image requests have completed with an image and the fourth is
\* outstanding: the call waits.
C12_Witness ==
    /\ pc = "images"
    /\ \A i \in 1..3 : slots[i].st = "fulfilled"
    /\ ImageOutstanding(4)
    /\ joined.state = "pending"
    /\ outcome = NoOutcome

\* C13: regeneratePalace sends its text request only after all four
\* image-edit requests have succeeded, and the image of that request is the
\* first entry, in submission order, of the new image set: the data URL made
\* of the MIME type and data of the request's image part is the URL made from
\* the response to edit request #1. When the image step has failed, no text
\* request is sent.
C13_TextAfterFirstImage ==
    IsRegenerate =>
        /\ (issued.text > 0 \/ textReq # NoReq) =>
              /\ AllFulfilled
              /\ joined.state = "fulfilled"
              /\ issued = [text |-> 1, image |-> 4]
              /\ Len(textReq.parts) = 2
              /\ textReq.parts[1].kind = "inlineData"
              /\ DataUrl(textReq.parts[1].mimeType, textReq.parts[1].data) = slots[1].url
              /\ slots[1].url = joined.values[1]
        /\ (joined.state = "rejected" \/ AnyRejected) =>
              /\ issued.text = 0
              /\ textReq = NoReq
              /\ textResp = NoResponse

\* The text request of a regeneration went out with the first new image,
\* which is neither the base image nor the last new image.
C13_Witness ==
    /\ IsRegenerate
    /\ issued.text = 1
    /\ arrival = <<2, 4, 3, 1>>
    /\ slots[1].url # call.baseImageUrl
    /\ slots[1].url # slots[4].url
    /\ textReq.parts[1].data = <<"A">>

\* The inline-image parts of a response, and the first of them.
InlineAt(response) ==
    {k \in 1..Len(response.parts) : response.parts[k].kind = "inlineData"}
FirstInline(response) ==
    response.parts[CHOOSE k \in InlineAt(response) : \A m \in InlineAt(response) : k <= m]

\* C14: whenever the response to an image request arrives, for generation and
\* for editing alike: a response with no inline-image part (no candidate, no
\* part, or text parts only) makes that request fail with the content error,
\* and a response with an inline-image part makes it yield the data URL
\* `data:<mimeType>;base64,<data>` of the first such part.
C14_ScanImageResponse ==
    [][\A i \in Slots, r \in ImageResponses :
          (~r.rejected /\ ImageResponseArrives(i, r)) =>
              IF r.candidates /\ InlineAt(r) # {}
              THEN /\ slots'[i].st = "fulfilled"
                   /\ slots'[i].url =
                         <<"d", "a", "t", "a", ":">> \o FirstInline(r).mimeType
                             \o <<";", "b", "a", "s", "e", "6", "4", ",">>
                             \o FirstInline(r).data
              ELSE /\ slots'[i].st = "rejected"
                   /\ slots'[i].url = <<>>
                   /\ slots'[i].err = (IF IsGenerate THEN GenerateFailed ELSE EditFailed)
                   /\ outcome'.kind = "thrown"]_vars

\* An edit request failed with the content error after another had yielded
\* the data URL of an image.
C14_Witness ==
    /\ IsRegenerate
    /\ slots[1].st = "fulfilled"
    /\ slots[1].url = DataUrl(AiMimeType, <<"A">>)
    /\ slots[2].st = "rejected"
    /\ slots[2].err = EditFailed
    /\ outcome = Thrown(EditFailed)

\* C22: when every request sent to the AI service (and every file read)
\* eventually completes, with a response or with a failure, every call of
\* generateMemoryPalace and of regeneratePalace eventually terminates: it
\* returns a result or throws an error.
C22_CallsTerminate ==
    (IsGenerate \/ IsRegenerate) ~>
        (pc = "done" /\ outcome.kind \in {"returned", "thrown"})

\* A regeneration has returned its result after all five of its requests
\* completed, the image requests in the order 3, 1, 4, 2.
C22_Witness ==
    /\ IsRegenerate
    /\ pc = "done"
    /\ outcome.kind = "returned"
    /\ arrival = <<3, 1, 4, 2>>
    /\ ~Outstanding

----------------------------------------------------------------------------
(* Properties of the viewer.                                               *)

\* C8 as stated: in every reachable state of the mounted viewer the pitch
\* lies within [-90 deg, +90 deg].
C8_PitchAlwaysWithin ==
    viewer.inst # 0 => Abs(camera.x) <= HalfPi

\* C8, amended: after every run of the animation callback the pitch lies
\* within [-90 deg, +90 deg], whatever drag and key input came before; it is
\* handleMouseMove that can leave rotation.x outside the range until the next
\* animation frame clamps it.
C8_PitchWithinAfterFrame ==
    [][frames' # frames => Abs(camera'.x) <= HalfPi]_vars

\* A frame has clamped the pitch at -90 deg during a drag with ArrowUp held.
C8_Witness ==
    /\ viewer.inst # 0
    /\ frames >= 2
    /\ camera.x = -HalfPi
    /\ rendered.pitch = -HalfPi
    /\ keysPressed["ArrowUp"]
    /\ isDragging

\* C9: unmounting the viewer while the texture is still loading does not
\* throw and releases every listener the mount registered: after the unmount
\* no keydown, keyup, mouseup or resize listener is left on the window and no
\* mousedown, mousemove or mouseleave listener on the mount element.
C9_UnmountReleasesListeners ==
    viewer.phase = "disposed" =>
        /\ ~threw
        /\ \A t \in {"keydown", "keyup", "mouseup", "resize"} :
              Listening("window", t) = {}
        /\ \A t \in {"mousedown", "mousemove", "mouseleave"} :
              Listening("mount", t) = {}
        /\ listeners = {}

\* The viewer was unmounted while the texture of its effect was loading.
C9_Witness ==
    /\ viewer.phase = "disposed"
    /\ viewer.effects = 1
    /\ 1 \in disposed
    /\ texture[1] = "loading"

\* C15: the disposed state is terminal. Once the viewer is unmounted it stays
\* unmounted and no later event changes its state: a texture-load callback
\* that fires after the unmount does not take the load from loading to ready
\* and adds no textured sphere to the scene of the disposed viewer.
C15_DisposedIsTerminal ==
    [][viewer.phase = "disposed" =>
          /\ viewer'.phase = "disposed"
          /\ disposed' = disposed
          /\ sphere' = sphere]_vars

\* C16: unmount cancels the render loop. In the unmounted viewer no animation
\* frame is requested, whatever the number of frames that ran before, and no
\* step after the unmount runs the frame callback or renders: the count of
\* animate() runs and the last render stay as the unmount found them.
C16_UnmountCancelsLoop ==
    /\ [](viewer.phase = "disposed" => frameReq = {})
    /\ [][viewer.phase = "disposed" =>
             /\ frames' = frames
             /\ rendered' = rendered
             /\ frameReq' = {}]_vars

\* The viewer was unmounted after two frames of its effect, with frames to
\* spare for a callback that was not canceled.
C16_Witness ==
    /\ viewer.phase = "disposed"
    /\ frames = 2
    /\ frames < MaxFrames
    /\ rendered.inst = 1
    /\ disposed = {1}

\* C17: a texture-load failure is logged only. The step in which the load of
\* an effect fails changes nothing but the state of that load, and raises no
\* error; from then on the load stays failed (it is not retried) and the
\* sphere of that effect is never added to its scene; and as long as that
\* effect is the running one, its animation frame stays requested and all
\* seven of its listeners stay registered.
C17_TextureFailureLoggedOnly ==
    /\ [](\A g \in Insts : texture[g] = "failed" =>
             /\ ~sphere[g]
             /\ ~threw
             /\ viewer.inst = g =>
                   /\ viewer.phase = "mounted"
                   /\ g \in frameReq
                   /\ Registered(g) \subseteq listeners)
    /\ [][\A g \in Insts :
             /\ texture[g] = "failed" => texture'[g] = "failed"
             /\ (texture[g] = "loading" /\ texture'[g] = "failed") =>
                   /\ viewer' = viewer
                   /\ sphere' = sphere
                   /\ camera' = camera
                   /\ keysPressed' = keysPressed
                   /\ listeners' = listeners
                   /\ frameReq' = frameReq
                   /\ threw' = threw]_vars

\* The texture of the running effect failed to load, and the viewer has
\* rendered three frames and turned the camera by a drag.
C17_Witness ==
    /\ viewer.inst = 1
    /\ texture[1] = "failed"
    /\ frames = 3
    /\ isDragging
    /\ camera.x = -1575

\* The pitch a frame has before its clamp: that of the camera, a new camera
\* in the first frame of an effect, after the frame's ArrowUp and ArrowDown
\* adjustments.
PitchBeforeClamp ==
    LET x0 == IF viewer'.effects # viewer.effects THEN 0 ELSE camera.x
        up == IF viewer'.effects = viewer.effects /\ keysPressed["ArrowUp"]
              THEN speed ELSE 0
        down == IF viewer'.effects = viewer.effects /\ keysPressed["ArrowDown"]
                THEN speed ELSE 0
    IN  x0 - up + down

\* C18: every frame is rendered with a pitch within [-90 deg, +90 deg]. In
\* each run of the animation callback the rendered pitch is the pitch the
\* camera had before the frame, whatever drags moved it to, adjusted by the
\* arrow keys held in that frame and then brought into the range; the camera
\* keeps that pitch.
C18_RenderedPitchWithin ==
    /\ [](-HalfPi <= rendered.pitch /\ rendered.pitch <= HalfPi)
    /\ [][frames' # frames =>
             /\ frames' = frames + 1
             /\ rendered'.pitch =
                   IF PitchBeforeClamp > HalfPi THEN HalfPi
                   ELSE IF PitchBeforeClamp < -HalfPi THEN -HalfPi
                   ELSE PitchBeforeClamp
             /\ camera'.x = rendered'.pitch]_vars

\* A frame was rendered at +90 deg with ArrowDown held, after a drag had
\* taken the pitch beyond.
C18_Witness ==
    /\ rendered = [pitch |-> HalfPi, inst |-> 1]
    /\ keysPressed["ArrowDown"]
    /\ frames = 3
    /\ dragInProgress

\* A camera input event: a key goes down or up, or the mouse goes down,
\* moves, goes up or leaves the viewer.
MouseMoveEvent == \E p \in Points : handleMouseMove(p)
InputEvent ==
    \/ \E k \in Keys : handleKeyDown(k) \/ handleKeyUp(k)
    \/ \E p \in Points : handleMouseDown(p)
    \/ MouseMoveEvent
    \/ handleMouseUp("window", "mouseup")
    \/ handleMouseUp("mount", "mouseleave")

\* C19: a camera input event changes the camera orientation and the drag and
\* key state only, never the lifecycle of the viewer (its phase, its image,
\* its texture load, its sphere, its listeners and its loop); and a mouse move
\* outside a drag, that is, not after a mousedown on the viewer or after the
\* mouseup or mouseleave that followed it, leaves yaw and pitch unchanged.
C19_InputChangesCameraOnly ==
    [][/\ InputEvent =>
             /\ viewer' = viewer
             /\ texture' = texture
             /\ sphere' = sphere
             /\ listeners' = listeners
             /\ frameReq' = frameReq
             /\ disposed' = disposed
       /\ (MouseMoveEvent /\ ~dragInProgress) =>
             /\ camera'.x = camera.x
             /\ camera'.y = camera.y]_vars

\* C20: across every sequence of mount, imageUrl change and unmount, at most
\* one render loop and at most one listener of each kind is active: at most
\* one animation frame is requested, the window has at most one keydown,
\* keyup, mouseup and resize listener and the mount element at most one
\* mousedown, mousemove and mouseleave listener and one canvas, and all of
\* them belong to the running effect, none to an effect whose cleanup ran.
C20_OneLoopOneListenerSet ==
    /\ Cardinality(frameReq) <= 1
    /\ Cardinality(canvases) <= 1
    /\ \A t \in {"keydown", "keyup", "mouseup", "resize"} :
          Cardinality(Listening("window", t)) <= 1
    /\ \A t \in {"mousedown", "mousemove", "mouseleave"} :
          Cardinality(Listening("mount", t)) <= 1
    /\ \A l \in listeners : l.inst = viewer.inst /\ l.inst \notin disposed
    /\ \A g \in frameReq \cup canvases : g = viewer.inst /\ g \notin disposed

\* The image was changed: the second effect runs with its loop and its seven
\* listeners, and the first was cleaned up.
C20_Witness ==
    /\ viewer.phase = "mounted"
    /\ viewer.inst = 2
    /\ disposed = {1}
    /\ frameReq = {2}
    /\ Cardinality(listeners) = 7
    /\ frames = 3

----------------------------------------------------------------------------
(* Properties of the gallery.                                              *)

\* The latest action of the trail, and the one before it.
LastMove == trail[Len(trail)]
MoveBefore == trail[Len(trail) - 1]

\* C21: in FullscreenViewer, for a non-empty image list and an initialIndex
\* within 0..images.length-1, the current index is within 0..images.length-1
\* after any sequence of next and previous actions, so that the image shown
\* is one of the list; next steps forward by one and from the last image
\* goes to the first, previous steps back by one and from the first image
\* goes to the last, and next followed by previous returns to the index
\* they started from.
C21_IndexWraps ==
    images # <<>> =>
        /\ currentIndex \in 0..(Len(images) - 1)
        /\ imageUrl \in {images[k] : k \in 1..Len(images)}
        /\ lastIndex \in {NoIndex} \cup 0..(Len(images) - 1)
        /\ (trail # <<>> /\ LastMove.op = "next") =>
              currentIndex = IF LastMove.from = Len(images) - 1 THEN 0
                             ELSE LastMove.from + 1
        /\ (trail # <<>> /\ LastMove.op = "prev") =>
              currentIndex = IF LastMove.from = 0 THEN Len(images) - 1
                             ELSE LastMove.from - 1
        /\ (Len(trail) >= 2 /\ MoveBefore.op = "next" /\ LastMove.op = "prev") =>
              currentIndex = MoveBefore.from

\* In a gallery of three images, next from the last image went to the first
\* and previous from there came back to the last.
C21_Witness ==
    /\ Len(images) = 3
    /\ trail = <<[op |-> "next", from |-> 2], [op |-> "prev", from |-> 0]>>
    /\ currentIndex = 2

====
